---- MODULE Spec2Model ----
(***************************************************************************)
(* Model of the analysis / cleaning engine of solar-farm-insight           *)
(* (src/notebooks/utils.py): clipping, outlier replacement, z-scores,      *)
(* negative-value zeroing and the night-time check, over a small           *)
(* DataFrame model.                                                        *)
(*                                                                         *)
(* A cell is a triple <<tag, a, b>>:                                       *)
(*   <<"num", n, d>>   the rational n/d (d > 0, reduced)                   *)
(*   <<"nan", 0, 0>>   the missing marker / not-a-number                   *)
(*   <<"inf", s, 0>>   signed infinity (s = 1 or -1)                       *)
(*   <<"sqrt", n, d>>  the square root of n/d (a standard deviation)       *)
(*   <<"z", n, d>>     a z-score, kept exactly as sign(z) * z^2 = n/d      *)
(*   <<"str", c, 0>>   a string (categorical) value with code c            *)
(*   <<"bool", b, 0>>  a boolean, b = 1 for True                           *)
(* A DataFrame is [cols, dtype, data, index]: the ordered column labels,   *)
(* the dtype of each column ("num", "str" or "bool"), the cells of each    *)
(* column and the hour-of-day of each row's timestamp.                     *)
(***************************************************************************)
EXTENDS Integers, Sequences, FiniteSets, TLC

VARIABLES df, df0, call, ret

vars == <<df, df0, call, ret>>

\* ------------------------------------------------------------------ bounds
MaxRows == 3

\* ------------------------------------------------------- cells, arithmetic
NaN == <<"nan", 0, 0>>

Abs(x) == IF x < 0 THEN -x ELSE x

Sgn(x) == IF x < 0 THEN -1 ELSE IF x = 0 THEN 0 ELSE 1

RECURSIVE Gcd(_, _)
Gcd(a, b) == IF b = 0 THEN a ELSE Gcd(b, a % b)

Tagged(tag, n, d) ==
    LET g == Gcd(Abs(n), d)
    IN  <<tag, n \div g, d \div g>>

Rat(n, d) == IF d < 0 THEN Tagged("num", -n, -d) ELSE Tagged("num", n, d)

Num(v) == <<"num", v, 1>>

Str(c) == <<"str", c, 0>>

Bool(b) == <<"bool", IF b THEN 1 ELSE 0, 0>>

IsNum(c) == c[1] = "num"

IsNull(c) == c[1] = "nan"

RAdd(x, y) == Rat(x[2] * y[3] + y[2] * x[3], x[3] * y[3])

RSub(x, y) == Rat(x[2] * y[3] - y[2] * x[3], x[3] * y[3])

RMul(x, y) == Rat(x[2] * y[2], x[3] * y[3])

RLess(x, y) == x[2] * y[3] < y[2] * x[3]

\* ------------------------------------------------- pandas Series primitives
\* the non-missing values of a series (every reduction skips missing values)
DropNa(s) == SelectSeq(s, IsNum)

RECURSIVE SumFrom(_, _)
SumFrom(s, i) == IF i > Len(s) THEN Num(0) ELSE RAdd(s[i], SumFrom(s, i + 1))

\* Series.mean(): the mean of the non-missing values, NaN when there is none
SeriesMean(s) ==
    LET v == DropNa(s)
    IN  IF Len(v) = 0 THEN NaN ELSE RMul(SumFrom(v, 1), Rat(1, Len(v)))

\* Series.std(): sample standard deviation (ddof = 1) of the non-missing
\* values, NaN with fewer than two of them
SeriesStd(s) ==
    LET v   == DropNa(s)
        avg == SeriesMean(s)
        sqr == [i \in 1..Len(v) |-> RMul(RSub(v[i], avg), RSub(v[i], avg))]
        var == RMul(SumFrom(sqr, 1), Rat(1, Len(v) - 1))
    IN  IF Len(v) <= 1 THEN NaN ELSE <<"sqrt", var[2], var[3]>>

RECURSIVE Insert(_, _)
Insert(x, s) ==
    IF s = <<>> THEN <<x>>
    ELSE IF RLess(s[1], x) THEN <<s[1]>> \o Insert(x, Tail(s))
    ELSE <<x>> \o s

RECURSIVE Sorted(_)
Sorted(s) == IF s = <<>> THEN <<>> ELSE Insert(s[1], Sorted(Tail(s)))

\* Series.median(): middle of the sorted non-missing values (the mean of the
\* two middle ones when their number is even), NaN when there is none
SeriesMedian(s) ==
    LET v == Sorted(DropNa(s))
        n == Len(v)
    IN  IF n = 0 THEN NaN
        ELSE IF n % 2 = 1 THEN v[(n + 1) \div 2]
        ELSE RMul(RAdd(v[n \div 2], v[n \div 2 + 1]), Rat(1, 2))

\* series - scalar, elementwise; NaN propagates
SubScalar(x, m) == IF IsNum(x) /\ IsNum(m) THEN RSub(x, m) ELSE NaN

\* DivStd with 0/0 taken to be 0
DivStdZeroIsZero(x, sd) ==
    IF ~IsNum(x) \/ sd[1] # "sqrt" THEN NaN
    ELSE IF sd[2] = 0 THEN <<"z", 0, 1>>
    ELSE Tagged("z", Sgn(x[2]) * x[2] * x[2] * sd[3], x[3] * x[3] * sd[2])

\* series / scalar where the scalar is a standard deviation: 0/0 is NaN,
\* x/0 is a signed infinity, otherwise the z-score (kept as sign * square)
DivStd(x, sd) ==
    IF ~IsNum(x) \/ sd[1] # "sqrt" THEN NaN
    ELSE IF sd[2] = 0 THEN (IF x[2] = 0 THEN NaN ELSE <<"inf", Sgn(x[2]), 0>>)
    ELSE Tagged("z", Sgn(x[2]) * x[2] * x[2] * sd[3], x[3] * x[3] * sd[2])

\* AbsGt with the comparison made non-strict
AbsGe(z, threshold) ==
    CASE z[1] = "inf" -> TRUE
      [] z[1] = "z"   -> \/ threshold < 0
                         \/ Abs(z[2]) >= threshold * threshold * z[3]
      [] OTHER        -> FALSE

\* abs(z) > threshold, elementwise; a comparison with NaN is False
AbsGt(z, threshold) ==
    CASE z[1] = "inf" -> TRUE
      [] z[1] = "z"   -> \/ threshold < 0
                         \/ Abs(z[2]) > threshold * threshold * z[3]
      [] OTHER        -> FALSE

\* ClipScalar that forgets the upper bound
ClipLowerOnly(x, lower, upper) ==
    IF IsNum(x) /\ RLess(x, Num(lower)) THEN Num(lower) ELSE x

\* Series.clip(lower, upper) with scalar bounds: pandas orders the two bounds
\* first; a missing value stays missing
ClipScalar(x, lower, upper) ==
    LET lo == IF lower <= upper THEN lower ELSE upper
        hi == IF lower <= upper THEN upper ELSE lower
    IN  IF ~IsNum(x) THEN x
        ELSE IF RLess(x, Num(lo)) THEN Num(lo)
        ELSE IF RLess(Num(hi), x) THEN Num(hi)
        ELSE x

\* x >= 0 and x < 0 as pandas evaluates them on a numeric cell (False on NaN)
GeZeroKeepsMissing(x) == ~(IsNum(x) /\ x[2] < 0)

GeZero(x) == IsNum(x) /\ x[2] >= 0

LtZero(x) == IsNum(x) /\ x[2] < 0

\* --------------------------------------------------------------- DataFrame
NRows(t) == Len(t.index)

HasCol(t, c) == \E i \in 1..Len(t.cols) : t.cols[i] = c

\* df[name] = series: replaces the column when the label exists, appends it
\* as the last column otherwise
SetColumn(t, name, dt, series) ==
    IF HasCol(t, name)
    THEN [t EXCEPT !.dtype[name] = dt, !.data[name] = series]
    ELSE [cols  |-> Append(t.cols, name),
          dtype |-> (name :> dt) @@ t.dtype,
          data  |-> (name :> series) @@ t.data,
          index |-> t.index]

\* df.select_dtypes(include=np.number).columns
NumericColumns(t) == SelectSeq(t.cols, LAMBDA c : t.dtype[c] = "num")

EmptyTable == [cols |-> <<>>, dtype |-> <<>>, data |-> <<>>, index |-> <<>>]

\* what a call returned or raised.  same tells that the DataFrame the call
\* worked on is the caller's object itself and work is that DataFrame as the
\* call left it; report is a returned dictionary, as its items in order.
NoRet == [kind |-> "none", exc |-> "", tbl |-> EmptyTable, same |-> FALSE,
          flag |-> FALSE, over |-> <<>>, stats |-> {}, work |-> EmptyTable,
          report |-> <<>>]

Returned(t, same) ==
    [NoRet EXCEPT !.kind = "table", !.tbl = t, !.same = same, !.work = t]

Raised(e) == [NoRet EXCEPT !.kind = "raise", !.exc = e]

\* the caller's DataFrame after a call made on t
CallerFrame(t, r) == IF r.same THEN r.work ELSE t

\* DataFrameCopy that hands back the object it was given
DataFrameNoCopy(t) == [tbl |-> t, same |-> TRUE]

\* df.copy(): a new DataFrame with the same contents
DataFrameCopy(t) == [tbl |-> t, same |-> FALSE]

\* df.where(cond, other): a new DataFrame that keeps a cell where the
\* frame of booleans cond is True and holds other elsewhere
DataFrameWhere(t, cond, other) ==
    [tbl  |-> [t EXCEPT !.data =
                 [c \in DOMAIN t.data |->
                     [i \in 1..NRows(t) |->
                         IF cond[c][i] THEN t.data[c][i] ELSE other]]],
     same |-> FALSE]

\* ------------------------------------------------------ the engine (utils)
\* df[col].isnull().sum()
NullCount(series) == Len(SelectSeq(series, IsNull))

\* NullReportLoop without the "if ... > 0" filter
RECURSIVE NullReportUnfiltered(_, _)
NullReportUnfiltered(t, k) ==
    IF k > Len(t.cols) THEN <<>>
    ELSE << <<t.cols[k], NullCount(t.data[t.cols[k]])>> >>
             \o NullReportUnfiltered(t, k + 1)

\* the dictionary comprehension of report_null_columns, over df.columns in
\* order: an item per column whose count of nulls is positive
RECURSIVE NullReportLoop(_, _)
NullReportLoop(t, k) ==
    IF k > Len(t.cols) THEN <<>>
    ELSE LET col == t.cols[k]
         IN  (IF NullCount(t.data[col]) > 0
              THEN << <<col, NullCount(t.data[col])>> >>
              ELSE <<>>)
                 \o NullReportLoop(t, k + 1)

report_null_columns(t) ==
    [NoRet EXCEPT !.kind = "dict", !.report = NullReportLoop(t, 1)]

\* clip_columns_to_range: the loop over column_ranges.items(), assigning the
\* clipped series into the DataFrame it was given, which it then returns.
\* Clipping a column of strings against numbers raises TypeError, after the
\* earlier entries have already been assigned.
RECURSIVE ClipLoop(_, _, _)
ClipLoop(t, column_ranges, k) ==
    IF k > Len(column_ranges) THEN [df |-> t, ret |-> Returned(t, TRUE)]
    ELSE LET column  == column_ranges[k][1]
             min_val == column_ranges[k][2]
             max_val == column_ranges[k][3]
         IN  IF ~HasCol(t, column) THEN ClipLoop(t, column_ranges, k + 1)
             ELSE IF t.dtype[column] = "str"
                  THEN [df |-> t, ret |-> Raised("TypeError")]
             ELSE ClipLoop(
                    SetColumn(t, column, "num",
                        [i \in 1..NRows(t) |->
                            ClipScalar(t.data[column][i], min_val, max_val)]),
                    column_ranges, k + 1)

clip_columns_to_range(t, column_ranges) == ClipLoop(t, column_ranges, 1)

\* Outliers with the comparison made non-strict
OutliersNonStrict(series, col_mean, col_std, threshold) ==
    [i \in 1..Len(series) |->
        LET z == DivStd(SubScalar(series[i], col_mean), col_std)
        IN  AbsGt(z, threshold)
              \/ (z[1] = "z" /\ threshold >= 0
                    /\ Abs(z[2]) = threshold * threshold * z[3])]

\* outliers = z_scores.abs() > threshold, with z_scores computed from the
\* column of df_cleaned as it is when the loop reaches it
Outliers(series, col_mean, col_std, threshold) ==
    [i \in 1..Len(series) |->
        AbsGt(DivStd(SubScalar(series[i], col_mean), col_std), threshold)]

\* ReplaceLoop with the replacement statistic taken after the outliers have
\* been removed from the column
RECURSIVE ReplaceLoopCleanStat(_, _, _, _, _, _, _)
ReplaceLoopCleanStat(df_cleaned, numcols, k, method, threshold, over, stats) ==
    IF k > Len(numcols)
    THEN [Returned(df_cleaned, FALSE) EXCEPT !.over = over, !.stats = stats]
    ELSE LET col      == numcols[k]
             series   == df_cleaned.data[col]
             col_mean == SeriesMean(series)
             col_std  == SeriesStd(series)
             outliers == Outliers(series, col_mean, col_std, threshold)
             kept     == [i \in 1..Len(series) |->
                             IF outliers[i] THEN NaN ELSE series[i]]
             replacement_value ==
                 IF method = "mean" THEN SeriesMean(kept)
                 ELSE SeriesMedian(kept)
         IN  IF method \notin {"mean", "median"}
             THEN [Raised("ValueError") EXCEPT !.stats = stats \cup {col},
                                               !.work = df_cleaned]
             ELSE ReplaceLoopCleanStat(
                    [df_cleaned EXCEPT !.data[col] =
                        [i \in 1..Len(series) |->
                            IF outliers[i] THEN replacement_value
                            ELSE series[i]]],
                    numcols, k + 1, method, threshold,
                    [over EXCEPT ![col] = outliers], stats \cup {col})

\* replace_outliers_with_mean_or_median: the loop over the numeric columns of
\* the copy.  over records, per column, the rows that .loc assigned; stats
\* records the columns whose mean and std had been computed.
RECURSIVE ReplaceLoop(_, _, _, _, _, _, _)
ReplaceLoop(df_cleaned, numcols, k, method, threshold, over, stats) ==
    IF k > Len(numcols)
    THEN [Returned(df_cleaned, FALSE) EXCEPT !.over = over, !.stats = stats]
    ELSE LET col      == numcols[k]
             series   == df_cleaned.data[col]
             col_mean == SeriesMean(series)
             col_std  == SeriesStd(series)
             outliers == Outliers(series, col_mean, col_std, threshold)
             replacement_value ==
                 IF method = "mean" THEN col_mean ELSE SeriesMedian(series)
         IN  IF method \notin {"mean", "median"}
             THEN [Raised("ValueError") EXCEPT !.stats = stats \cup {col},
                                               !.work = df_cleaned]
             ELSE ReplaceLoop(
                    [df_cleaned EXCEPT !.data[col] =
                        [i \in 1..Len(series) |->
                            IF outliers[i] THEN replacement_value
                            ELSE series[i]]],
                    numcols, k + 1, method, threshold,
                    [over EXCEPT ![col] = outliers], stats \cup {col})

replace_outliers_with_mean_or_median(t, method, threshold) ==
    LET df_cleaned == DataFrameCopy(t)
    IN  [ReplaceLoop(df_cleaned.tbl, NumericColumns(df_cleaned.tbl), 1,
                     method, threshold,
                     [c \in {t.cols[j] : j \in 1..Len(t.cols)} |->
                         [i \in 1..NRows(t) |-> FALSE]],
                     {})
         EXCEPT !.same = df_cleaned.same]

\* calculate_z_scores: per requested column, the z-score column and the
\* flagged column are assigned into the copy; the statistics are read from
\* the DataFrame that was passed in.  A label that is not a column raises
\* KeyError, the mean of a column of strings raises TypeError.
RECURSIVE ZScoreLoop(_, _, _, _, _)
ZScoreLoop(data, z_score_results, columns, k, threshold) ==
    IF k > Len(columns) THEN Returned(z_score_results, FALSE)
    ELSE LET column == columns[k]
         IN  IF ~HasCol(data, column)
             THEN [Raised("KeyError") EXCEPT !.work = z_score_results]
             ELSE IF data.dtype[column] = "str"
             THEN [Raised("TypeError") EXCEPT !.work = z_score_results]
             ELSE LET series   == data.data[column]
                      avg      == SeriesMean(series)
                      sd       == SeriesStd(series)
                      z_scores == [i \in 1..Len(series) |->
                                     DivStd(SubScalar(series[i], avg), sd)]
                      flagged  == [i \in 1..Len(series) |->
                                     Bool(AbsGt(z_scores[i], threshold))]
                  IN  ZScoreLoop(data,
                        SetColumn(
                          SetColumn(z_score_results, column \o "_zscore",
                                    "num", z_scores),
                          column \o "_flagged", "bool", flagged),
                        columns, k + 1, threshold)

calculate_z_scores(data, columns, threshold) ==
    LET z_score_results == DataFrameCopy(data)
    IN  [ZScoreLoop(data, z_score_results.tbl, columns, 1, threshold)
         EXCEPT !.same = z_score_results.same]

\* df >= 0 and df < 0 compare every column with an integer, which raises
\* TypeError when a column holds strings
Comparable(t) == \A j \in 1..Len(t.cols) : t.dtype[t.cols[j]] # "str"

\* replace_neg_with_zero: df.where(df >= 0, 0) keeps a cell where the
\* condition is True and puts 0 elsewhere
replace_neg_with_zero(t) ==
    IF ~Comparable(t) THEN Raised("TypeError")
    ELSE LET ge_zero    == [c \in DOMAIN t.data |->
                               [i \in 1..NRows(t) |-> GeZero(t.data[c][i])]]
             df_cleaned == DataFrameWhere(t, ge_zero, Num(0))
         IN  Returned(df_cleaned.tbl, df_cleaned.same)

\* the positions of the rows selected by (df < 0).any(axis=1), in order
NegativeRows(t) ==
    SelectSeq([i \in 1..NRows(t) |-> i],
              LAMBDA i : \E j \in 1..Len(t.cols) : LtZero(t.data[t.cols[j]][i]))

\* negative_values with its "Hour" and "Nighttime" columns, reordered by
\* [["Hour", "Nighttime"] + list(df.columns)]
NighttimeFrame(t, nighttime_start, nighttime_end) ==
    LET rows == NegativeRows(t)
        negative_values ==
            [cols  |-> t.cols,
             dtype |-> t.dtype,
             data  |-> [c \in DOMAIN t.data |->
                          [r \in 1..Len(rows) |-> t.data[c][rows[r]]]],
             index |-> [r \in 1..Len(rows) |-> t.index[rows[r]]]]
        hour == [r \in 1..Len(rows) |-> Num(negative_values.index[r])]
        is_nighttime ==
            [r \in 1..Len(rows) |->
                Bool(hour[r][2] >= nighttime_start
                     \/ hour[r][2] < nighttime_end)]
        with == SetColumn(SetColumn(negative_values, "Hour", "num", hour),
                          "Nighttime", "bool", is_nighttime)
    IN  [with EXCEPT !.cols = <<"Hour", "Nighttime">> \o t.cols]

\* Python's all() over a DataFrame iterates its column labels and tests the
\* truth value of each one; a label is true unless it is the empty string
AllLabels(t) == \A j \in 1..Len(t.cols) : t.cols[j] # ""

\* check_negative_values_nighttime: returns all(...) of the frame it built
check_negative_values_nighttime(t, nighttime_start, nighttime_end) ==
    IF ~Comparable(t) THEN Raised("TypeError")
    ELSE [NoRet EXCEPT
            !.kind = "bool",
            !.flag = AllLabels(
                        NighttimeFrame(t, nighttime_start, nighttime_end))]

\* ------------------------------------------------ resampling (pages, utils)
\* the labels of a list of columns
LabelSet(cols) == {cols[j] : j \in 1..Len(cols)}

\* the day of each row, counted from the first row's day: the rows are in
\* time order and less than a day apart, so a new day starts wherever the
\* hour-of-day does not grow
RECURSIVE DayOf(_, _)
DayOf(index, i) ==
    IF i <= 1 THEN 0
    ELSE DayOf(index, i - 1) + (IF index[i] <= index[i - 1] THEN 1 ELSE 0)

\* Series.min(), Series.max(): over the non-missing values, NaN without any
SeriesMin(s) ==
    LET v == Sorted(DropNa(s)) IN IF v = <<>> THEN NaN ELSE v[1]

SeriesMax(s) ==
    LET v == Sorted(DropNa(s)) IN IF v = <<>> THEN NaN ELSE v[Len(v)]

\* Series.sum(): 0 when there is no value
SeriesSum(s) == SumFrom(DropNa(s), 1)

\* one aggregation of the cells of a bucket.  On a column of strings min
\* and max give a string and sum concatenates (the code of the result is
\* the sum of the codes); mean and median are refused before this point.
AggregateCells(method, dtype, s) ==
    IF dtype = "str"
    THEN (IF s = <<>> THEN NaN
          ELSE IF method = "sum"
               THEN Str(SumFrom([i \in 1..Len(s) |-> Num(s[i][2])], 1)[2])
               ELSE s[1])
    ELSE CASE method = "mean"   -> SeriesMean(s)
           [] method = "median" -> SeriesMedian(s)
           [] method = "min"    -> SeriesMin(s)
           [] method = "max"    -> SeriesMax(s)
           [] OTHER             -> SeriesSum(s)

\* the frame a resampler's aggregation returns: one row per bucket, from
\* the first row's bucket to the last row's, bucket[i] being the bucket of
\* row i; mean and median of a column of strings raise TypeError
ResampleAggregate(t, bucket, method) ==
    LET n     == NRows(t)
        nb    == IF n = 0 THEN 0 ELSE bucket[n] + 1
        Rows(b) == SelectSeq([i \in 1..n |-> i], LAMBDA i : bucket[i] = b)
    IN  IF method \in {"mean", "median"} /\ n > 0 /\ ~Comparable(t)
        THEN Raised("TypeError")
        ELSE Returned(
               [cols  |-> t.cols,
                dtype |-> t.dtype,
                data  |-> [c \in DOMAIN t.data |->
                             [b \in 1..nb |->
                                 AggregateCells(method, t.dtype[c],
                                     [r \in 1..Len(Rows(b - 1)) |->
                                         t.data[c][Rows(b - 1)[r]]])]],
                index |-> [b \in 1..nb |-> 0]],
               FALSE)

\* the aggregation methods of a pandas Resampler that the model knows
ResamplerMethods == {"mean", "median", "min", "max", "sum"}

\* str.lower() on the method names in use
Lower(name) ==
    CASE name = "Mean"   -> "mean"
      [] name = "Median" -> "median"
      [] name = "Min"    -> "min"
      [] name = "Max"    -> "max"
      [] OTHER           -> name

\* getattr(dataset.resample(f"{period}D"), aggregation_method.lower())():
\* the method is looked up by name on the resampler, which raises
\* AttributeError for a name it does not have; buckets are period days
\* wide and start at the first row's day
resample(dataset, period, aggregation_method) ==
    IF Lower(aggregation_method) \notin ResamplerMethods
    THEN Raised("AttributeError")
    ELSE ResampleAggregate(dataset,
                           [i \in 1..NRows(dataset) |->
                               DayOf(dataset.index, i) \div period],
                           Lower(aggregation_method))

\* the columns aggregate_solar_data selects, whatever the caller wants
SolarColumns == <<"GHI", "DNI", "DHI">>

\* df[["GHI", "DNI", "DHI"]]: the three columns in that order
SelectSolar(t) ==
    [cols  |-> SolarColumns,
     dtype |-> [c \in LabelSet(SolarColumns) |-> t.dtype[c]],
     data  |-> [c \in LabelSet(SolarColumns) |-> t.data[c]],
     index |-> t.index]

\* the calendar period of row i, the first row being on 1 January: the
\* month ("M") while the rows stay within January, the year ("Y") while
\* they stay within a year of 365 days
CalendarBucket(t, frequency, i) ==
    DayOf(t.index, i) \div (IF frequency = "M" THEN 31 ELSE 365)

\* the selection and the mean without the check of the frequency
AggregateUnchecked(t, frequency) ==
    IF \E j \in 1..Len(SolarColumns) : ~HasCol(t, SolarColumns[j])
    THEN Raised("KeyError")
    ELSE ResampleAggregate(SelectSolar(t),
                           [i \in 1..NRows(t) |->
                               CalendarBucket(t, frequency, i)],
                           "mean")

\* aggregate_solar_data(df, frequency): the frequency is checked first;
\* then the three fixed columns are selected (KeyError when one is not in
\* the table) and averaged per calendar period
aggregate_solar_data(t, frequency) ==
    IF frequency \notin {"M", "Y"}
    THEN Raised("ValueError")
    ELSE IF \E j \in 1..Len(SolarColumns) : ~HasCol(t, SolarColumns[j])
    THEN Raised("KeyError")
    ELSE ResampleAggregate(SelectSolar(t),
                           [i \in 1..NRows(t) |->
                               CalendarBucket(t, frequency, i)],
                           "mean")

\* ------------------------------------------------------------ correlation
\* a correlation coefficient of 1.0 (coefficients are kept as sign * square)
One == <<"corr", 1, 1>>

\* x / y for y # 0
RDiv(x, y) == Rat(x[2] * y[3], x[3] * y[2])

RECURSIVE SumProducts(_, _, _)
SumProducts(u, v, i) ==
    IF i > Len(u) THEN Num(0)
    ELSE RAdd(RMul(u[i], v[i]), SumProducts(u, v, i + 1))

\* PairCorr with a zero variance taken as a perfect correlation
PairCorrConstantIsOne(x, y) ==
    LET rows == SelectSeq([i \in 1..Len(x) |-> i],
                          LAMBDA i : IsNum(x[i]) /\ IsNum(y[i]))
        xs   == [r \in 1..Len(rows) |-> x[rows[r]]]
        ys   == [r \in 1..Len(rows) |-> y[rows[r]]]
        dx   == [r \in 1..Len(rows) |-> RSub(xs[r], SeriesMean(xs))]
        dy   == [r \in 1..Len(rows) |-> RSub(ys[r], SeriesMean(ys))]
        cov  == SumProducts(dx, dy, 1)
        vx   == SumProducts(dx, dx, 1)
        vy   == SumProducts(dy, dy, 1)
        sq   == RMul(RDiv(cov, vx), RDiv(cov, vy))
    IN  IF rows = <<>> THEN NaN
        ELSE IF vx[2] = 0 \/ vy[2] = 0 THEN One
        ELSE Tagged("corr", Sgn(cov[2]) * sq[2], sq[3])

\* the Pearson coefficient of two columns over the rows where neither is
\* missing (pairwise-complete observations, min_periods = 1), in exact
\* arithmetic: covariance / sqrt(variance * variance), NaN when there is
\* no such row or when that divisor is 0
PairCorr(x, y) ==
    LET rows == SelectSeq([i \in 1..Len(x) |-> i],
                          LAMBDA i : IsNum(x[i]) /\ IsNum(y[i]))
        xs   == [r \in 1..Len(rows) |-> x[rows[r]]]
        ys   == [r \in 1..Len(rows) |-> y[rows[r]]]
        dx   == [r \in 1..Len(rows) |-> RSub(xs[r], SeriesMean(xs))]
        dy   == [r \in 1..Len(rows) |-> RSub(ys[r], SeriesMean(ys))]
        cov  == SumProducts(dx, dy, 1)
        vx   == SumProducts(dx, dx, 1)
        vy   == SumProducts(dy, dy, 1)
        sq   == RMul(RDiv(cov, vx), RDiv(cov, vy))
    IN  IF rows = <<>> THEN NaN
        ELSE IF vx[2] = 0 \/ vy[2] = 0 THEN NaN
        ELSE Tagged("corr", Sgn(cov[2]) * sq[2], sq[3])

\* plot_correlation_heatmap: corr_matrix = data[columns].corr().  The
\* selection raises KeyError for a label the table lacks.  The matrix is
\* kept as a frame whose columns are the chosen ones and whose row k is
\* the row of columns[k] (the index holds k); the chosen columns are
\* distinct and numeric.
plot_correlation_heatmap(data, columns) ==
    IF \E k \in 1..Len(columns) : ~HasCol(data, columns[k])
    THEN Raised("KeyError")
    ELSE [NoRet EXCEPT
            !.kind = "matrix",
            !.tbl  = [cols  |-> columns,
                      dtype |-> [c \in LabelSet(columns) |-> "num"],
                      data  |-> [c \in LabelSet(columns) |->
                                   [k \in 1..Len(columns) |->
                                       PairCorr(data.data[columns[k]],
                                                data.data[c])]],
                      index |-> [k \in 1..Len(columns) |-> k]]]

\* ------------------------------------------------------------------ inputs
GhiCells == {Num(-1), Num(0), Num(1), NaN}

TambCells == {Num(-2), Num(3)}

CommentCells == {Str(1)}

DtypeOf(c) == IF c = "Comments" THEN "str" ELSE "num"

DniCells == {Num(2)}

DhiCells == {Num(1)}

\* the cells of a column that is already named like a generated one
ZscoreCells == {Num(7)}

Layouts == {<<>>, <<"GHI">>, <<"GHI", "Tamb">>, <<"Comments">>,
            <<"Comments", "Tamb">>, <<"GHI", "DNI", "DHI">>,
            <<"GHI", "GHI_zscore">>}

StartHours == {5, 17}

\* the hour-of-day of n hourly timestamps starting at hour h0
HourlyIndex(h0, n) == [i \in 1..n |-> (h0 + i - 1) % 24]

Frames(cols, n) ==
    {[cols  |-> cols,
      dtype |-> [c \in LabelSet(cols) |-> DtypeOf(c)],
      data  |-> [c \in LabelSet(cols) |->
                    CASE c = "GHI"  -> g
                      [] c = "Tamb" -> tb
                      [] c = "DNI"  -> dn
                      [] c = "DHI"  -> dh
                      [] c = "GHI_zscore" -> zs
                      [] OTHER      -> cm],
      index |-> HourlyIndex(h0, n)] :
        g \in [1..n -> GhiCells], tb \in [1..n -> TambCells],
        dn \in [1..n -> DniCells], dh \in [1..n -> DhiCells],
        zs \in [1..n -> ZscoreCells],
        cm \in [1..n -> CommentCells], h0 \in StartHours}

\* a single numeric column "GHI" holding the given integers
Column(values) ==
    [cols  |-> <<"GHI">>,
     dtype |-> [c \in {"GHI"} |-> "num"],
     data  |-> [c \in {"GHI"} |-> [i \in 1..Len(values) |-> Num(values[i])]],
     index |-> HourlyIndex(0, Len(values))]

\* two numeric columns a and b holding the given cells, on hourly
\* timestamps that start at 22:00 and so run into the next day
TwoColumns(a, va, b, vb) ==
    [cols  |-> <<a, b>>,
     dtype |-> [c \in {a, b} |-> "num"],
     data  |-> [c \in {a, b} |-> IF c = a THEN va ELSE vb],
     index |-> HourlyIndex(22, Len(va))]

ScenarioA == TwoColumns("A", <<Num(1), NaN, Num(3)>>,
                        "B", <<Num(1), Num(2), Num(3)>>)

\* a table with missing values in both of its columns
BothMissing == TwoColumns("A", <<NaN, Num(2), NaN>>,
                          "B", <<NaN, Num(5), Num(6)>>)

ScenarioE == TwoColumns("X", <<Num(1), Num(2), Num(3), Num(4)>>,
                        "Y", <<Num(2), Num(4), Num(6), Num(8)>>)

ScenarioB == Column(<<1, 2, 3, 4, 5>>)

ScenarioC == Column(<<-5, 50, 1200>>)

ScenarioD == Column(<<-3, 0, 7>>)

\* the row counts of the tables of a layout: a table of two columns has one
\* row less than a table of one, and a table with a column of strings has
\* at least one row (the strings are what makes it one)
RowCounts(cols) ==
    (IF "Comments" \in LabelSet(cols) THEN 1 ELSE 0)
        .. (IF Len(cols) >= 2 THEN MaxRows - 1 ELSE MaxRows)

InputTables ==
    UNION {UNION {Frames(cols, n) : n \in RowCounts(cols)} : cols \in Layouts}
        \cup {ScenarioA, BothMissing, ScenarioB, ScenarioC, ScenarioD,
              ScenarioE}

\* column_ranges dictionaries, as their items in insertion order
RangeSpecs == {<<>>,
               << <<"GHI", 0, 1000>> >>,
               << <<"GHI", 0, 1>>, <<"Tamb", -1, 0>> >>,
               << <<"DNI", 0, 1000>>, <<"Tamb", 0, 0>> >>,
               << <<"Tamb", -1, 0>>, <<"Comments", 0, 1>>, <<"GHI", 0, 5>> >>}

Methods == {"mean", "median", "mode"}

Thresholds == {-1, 0, 1}

ColumnLists == {<<"GHI">>, <<"Tamb", "GHI">>, <<"Tamb", "Comments">>,
                <<"GHI", "GHI">>}

NightWindows == {<<18, 6>>, <<20, 4>>}

\* the options of the page's select box and two names outside of them
AggregationMethods == {"Mean", "Median", "Min", "Max", "sum", "average"}

\* the ends of the page's period slider
MinPeriod == 1

MaxPeriod == 30

Periods == {MinPeriod, MaxPeriod}

\* the column selections of the correlation page: numeric columns, each
\* chosen once
CorrColumnLists == {<<"GHI">>, <<"Tamb", "GHI">>, <<"A", "B">>, <<"X", "Y">>}

Frequencies == {"M", "Y", "W"}

\* the columns a caller of aggregate_solar_data wants averaged; the
\* function has no parameter to receive them
WantedColumns == {<<"GHI", "DNI", "DHI">>, <<"GHI">>}

NoCall == [op |-> "", column_ranges |-> <<>>, method |-> "", threshold |-> 0,
           columns |-> <<>>, nighttime_start |-> 0, nighttime_end |-> 0,
           period |-> 0, frequency |-> ""]

\* ----------------------------------------------------------- state machine
\* df is the caller's DataFrame object; df0 is its value when the last call
\* was made, call that call's arguments and ret what it returned or raised.
\* The caller makes one call at a time: it renders what the call returned
\* and drops it (Render) before it makes the next call on the DataFrame.
Init ==
    /\ df \in InputTables
    /\ df0 = df
    /\ call = NoCall
    /\ ret = NoRet

Clip ==
    /\ call.op = ""
    /\ \E column_ranges \in RangeSpecs :
        LET r == clip_columns_to_range(df, column_ranges)
        IN  /\ df0' = df
            /\ call' = [NoCall EXCEPT !.op = "clip",
                                      !.column_ranges = column_ranges]
            /\ df' = r.df
            /\ ret' = r.ret

ReplaceOutliers ==
    /\ call.op = ""
    /\ \E method \in Methods, threshold \in Thresholds :
        /\ df0' = df
        /\ call' = [NoCall EXCEPT !.op = "replace", !.method = method,
                                  !.threshold = threshold]
        /\ ret' = replace_outliers_with_mean_or_median(df, method, threshold)
        /\ df' = CallerFrame(df, ret')

ZScores ==
    /\ call.op = ""
    /\ \E columns \in ColumnLists, threshold \in Thresholds :
        /\ df0' = df
        /\ call' = [NoCall EXCEPT !.op = "zscores", !.columns = columns,
                                  !.threshold = threshold]
        /\ ret' = calculate_z_scores(df, columns, threshold)
        /\ df' = CallerFrame(df, ret')

ZeroNegatives ==
    /\ call.op = ""
    /\ df0' = df
    /\ call' = [NoCall EXCEPT !.op = "zero"]
    /\ ret' = replace_neg_with_zero(df)
    /\ df' = CallerFrame(df, ret')

CheckNighttime ==
    /\ call.op = ""
    /\ \E w \in NightWindows :
        /\ df0' = df
        /\ call' = [NoCall EXCEPT !.op = "night", !.nighttime_start = w[1],
                                  !.nighttime_end = w[2]]
        /\ ret' = check_negative_values_nighttime(df, w[1], w[2])
        /\ UNCHANGED df

ReportNulls ==
    /\ call.op = ""
    /\ df0' = df
    /\ call' = [NoCall EXCEPT !.op = "nulls"]
    /\ ret' = report_null_columns(df)
    /\ UNCHANGED df

Resample ==
    /\ call.op = ""
    /\ \E period \in Periods, aggregation_method \in AggregationMethods :
        /\ df0' = df
        /\ call' = [NoCall EXCEPT !.op = "resample", !.period = period,
                                  !.method = aggregation_method]
        /\ ret' = resample(df, period, aggregation_method)
        /\ UNCHANGED df

Aggregate ==
    /\ call.op = ""
    /\ \E frequency \in Frequencies, columns \in WantedColumns :
        /\ df0' = df
        /\ call' = [NoCall EXCEPT !.op = "aggregate", !.columns = columns,
                                  !.frequency = frequency]
        /\ ret' = aggregate_solar_data(df, frequency)
        /\ UNCHANGED df

Correlate ==
    /\ call.op = ""
    /\ \E columns \in CorrColumnLists :
        /\ df0' = df
        /\ call' = [NoCall EXCEPT !.op = "corr", !.columns = columns]
        /\ ret' = plot_correlation_heatmap(df, columns)
        /\ UNCHANGED df

Render ==
    /\ call.op # ""
    /\ df0' = df
    /\ call' = NoCall
    /\ ret' = NoRet
    /\ UNCHANGED df

Next ==
    \/ Clip
    \/ ReplaceOutliers
    \/ ZScores
    \/ ZeroNegatives
    \/ CheckNighttime
    \/ ReportNulls
    \/ Resample
    \/ Aggregate
    \/ Correlate
    \/ Render

Spec == Init /\ [][Next]_vars

\* ------------------------------------------------------------------ claims
\* C1: clip never mutates the table it is given: after clip(T, R) every cell
\* of the caller's T holds the value it held before the call, and the
\* clamped values appear only in a new table that is returned.
C1_ClipLeavesInputUntouched ==
    call.op = "clip" => df = df0

\* C2: checkNegativeNighttime returns the per-row report: one record per
\* input row with a negative value, in input order, carrying the row's hour,
\* its original values and isNighttime = hour >= nightStart or
\* hour < nightEnd; never a single boolean.
C2_NighttimeReturnsReport ==
    (call.op = "night" /\ ret.kind # "raise") =>
        /\ ret.kind = "table"
        /\ LET rows == NegativeRows(df0)
           IN  /\ NRows(ret.tbl) = Len(rows)
               /\ \A r \in 1..Len(rows) :
                    /\ ret.tbl.data["Hour"][r] = Num(df0.index[rows[r]])
                    /\ ret.tbl.data["Nighttime"][r] =
                         Bool(df0.index[rows[r]] >= call.nighttime_start
                              \/ df0.index[rows[r]] < call.nighttime_end)
                    /\ \A c \in LabelSet(df0.cols) :
                         ret.tbl.data[c][r] = df0.data[c][rows[r]]

\* C3: replaceOutliers fails with InvalidArgument (ValueError) whenever the
\* method is neither mean nor median, for every table, and before any
\* statistic is computed.
C3_InvalidMethodAlwaysRejected ==
    (call.op = "replace" /\ call.method \notin {"mean", "median"}) =>
        /\ ret.kind = "raise"
        /\ ret.exc = "ValueError"
        /\ ret.stats = {}

\* C4: for every numeric column, the rows flagged by computeZScores(T,
\* column, t) are exactly the rows whose cell replaceOutliers(T, t)
\* overwrites, and every other cell of the remediated table equals T's.
C4_FlaggedEqualsOverwritten ==
    (call.op = "replace" /\ ret.kind = "table") =>
        /\ ret.tbl.cols = df0.cols
        /\ \A c \in LabelSet(df0.cols) :
             IF df0.dtype[c] = "num"
             THEN LET z == calculate_z_scores(df0, <<c>>, call.threshold)
                  IN  /\ z.kind = "table"
                      /\ \A i \in 1..NRows(df0) :
                           /\ ret.over[c][i] <=>
                                z.tbl.data[c \o "_flagged"][i] = Bool(TRUE)
                           /\ ~ret.over[c][i] =>
                                ret.tbl.data[c][i] = df0.data[c][i]
             ELSE ret.tbl.data[c] = df0.data[c]

\* a replaceOutliers call that overwrote one cell of a column, changing its
\* value, and kept another cell of the same column
C4_Witness ==
    /\ call.op = "replace"
    /\ ret.kind = "table"
    /\ \E c \in LabelSet(df0.cols) : \E i, j \in 1..NRows(df0) :
         /\ ret.over[c][i]
         /\ ret.tbl.data[c][i] # df0.data[c][i]
         /\ ~ret.over[c][j]
         /\ IsNum(df0.data[c][j])

\* C5: after clip(T, R) with (min, max) pairs min <= max, every value of a
\* column named in both equals min(max(v, lo), hi) and lies in [lo, hi]
\* (missing stays missing), every other column is identical to the input,
\* and a key of R that is not a column of T causes no error and no change;
\* GHI [-5, 50, 1200] with (0, 1000) gives [0, 50, 1000].
C5_ClipClamps ==
    call.op = "clip" =>
        LET R      == call.column_ranges
            named  == {R[k][1] : k \in 1..Len(R)} \cap LabelSet(df0.cols)
            EntryOf(c) == R[CHOOSE k \in 1..Len(R) : R[k][1] = c]
            Min(a, b)  == IF a < b THEN a ELSE b
            Max(a, b)  == IF a < b THEN b ELSE a
        IN  /\ (\A c \in named : df0.dtype[c] = "num") => ret.kind = "table"
            /\ ret.kind = "table" =>
                 /\ ret.tbl.cols = df0.cols
                 /\ \A c \in LabelSet(df0.cols) : \A i \in 1..NRows(df0) :
                      LET v_in == df0.data[c][i]
                          v    == ret.tbl.data[c][i]
                      IN  IF c \in named /\ IsNum(v_in)
                          THEN LET lo == EntryOf(c)[2]
                                   hi == EntryOf(c)[3]
                               IN  /\ v = Num(Min(Max(v_in[2], lo), hi))
                                   /\ lo <= v[2] /\ v[2] <= hi
                          ELSE v = v_in
            /\ (df0 = ScenarioC /\ R = << <<"GHI", 0, 1000>> >>) =>
                 ret.tbl.data["GHI"] = <<Num(0), Num(50), Num(1000)>>

\* the clip of GHI [-5, 50, 1200] to (0, 1000) has returned
C5_Witness ==
    /\ call.op = "clip"
    /\ df0 = ScenarioC
    /\ call.column_ranges = << <<"GHI", 0, 1000>> >>
    /\ ret.kind = "table"
    /\ ret.tbl.data["GHI"] # df0.data["GHI"]

\* C6: every cell of zeroNegatives(T) is >= 0 and every cell whose input is
\* >= 0 is unchanged; [-3, 0, 7] gives [0, 0, 7].
C6_ZeroNegatives ==
    (call.op = "zero" /\ ret.kind = "table") =>
        /\ ret.tbl.cols = df0.cols
        /\ \A c \in LabelSet(df0.cols) : \A i \in 1..NRows(df0) :
             /\ IsNum(ret.tbl.data[c][i])
             /\ ret.tbl.data[c][i][2] >= 0
             /\ (IsNum(df0.data[c][i]) /\ df0.data[c][i][2] >= 0) =>
                  ret.tbl.data[c][i] = df0.data[c][i]
        /\ df0 = ScenarioD =>
             ret.tbl.data["GHI"] = <<Num(0), Num(0), Num(7)>>

\* zeroNegatives has returned for a table that holds a negative cell, a
\* zero or positive cell and a missing cell
C6_Witness ==
    /\ call.op = "zero"
    /\ ret.kind = "table"
    /\ \E c \in LabelSet(df0.cols) : \E i, j, k \in 1..NRows(df0) :
         /\ LtZero(df0.data[c][i])
         /\ GeZero(df0.data[c][j])
         /\ IsNull(df0.data[c][k])

\* C7: zeroNegatives passes non-numeric columns through unmodified: for a
\* table with a categorical column the call succeeds, that column's cells
\* equal the input's and the numeric columns are zeroed.
C7_ZeroNegativesPassesCategorical ==
    (call.op = "zero" /\ \E c \in LabelSet(df0.cols) : df0.dtype[c] = "str") =>
        /\ ret.kind = "table"
        /\ \A c \in LabelSet(df0.cols) :
             IF df0.dtype[c] = "str"
             THEN ret.tbl.data[c] = df0.data[c]
             ELSE \A i \in 1..NRows(df0) :
                    ret.tbl.data[c][i] =
                        IF LtZero(df0.data[c][i]) THEN Num(0)
                        ELSE df0.data[c][i]

\* C8: for every requested column whose sample standard deviation is zero
\* (two or more non-missing values, all equal), computeZScores flags no row
\* whatever the threshold, and the column's z-scores are the not-a-number
\* sentinel; the call does not fail.
C8_ZeroVarianceFlagsNothing ==
    call.op = "zscores" =>
        \A k \in 1..Len(call.columns) :
            LET c == call.columns[k]
                v == IF HasCol(df0, c) /\ df0.dtype[c] = "num"
                     THEN DropNa(df0.data[c]) ELSE <<>>
            IN  (/\ \A j \in 1..Len(call.columns) :
                       /\ HasCol(df0, call.columns[j])
                       /\ df0.dtype[call.columns[j]] = "num"
                 /\ Len(v) >= 2
                 /\ \A i \in 1..Len(v) : v[i] = v[1]) =>
                    /\ ret.kind = "table"
                    /\ \A i \in 1..NRows(df0) :
                         /\ ret.tbl.data[c \o "_flagged"][i] = Bool(FALSE)
                         /\ ret.tbl.data[c \o "_zscore"][i] = NaN

\* computeZScores has returned for a constant column of at least two values
\* with a negative threshold
C8_Witness ==
    /\ call.op = "zscores"
    /\ call.threshold < 0
    /\ ret.kind = "table"
    /\ \E k \in 1..Len(call.columns) :
         LET v == DropNa(df0.data[call.columns[k]])
         IN  Len(v) >= 2 /\ \A i \in 1..Len(v) : v[i] = v[1]

\* C9: computeZScores flags a row of a requested column exactly when
\* |x - mean| > threshold * sd strictly, mean and sd (divisor n - 1) taken
\* over the column's non-missing values; a row with |z| equal to the
\* threshold is not flagged; a missing value stays missing and is not
\* flagged; [1, 2, 3, 4, 5] with threshold 1 flags exactly 1 and 5.
\* With n values of sum S and sum of squares Q, |x - mean| > t * sd is
\* (n*x - S)^2 * (n - 1) > t^2 * n * (n*Q - S^2) for t >= 0, and sd > 0
\* for t < 0.
C9_FlagIsStrictThreshold ==
    (call.op = "zscores" /\ ret.kind = "table") =>
        /\ \A k \in 1..Len(call.columns) :
             LET c == call.columns[k]
                 x == df0.data[c]
                 t == call.threshold
                 present == {i \in 1..Len(x) : ~IsNull(x[i])}
                 n == Cardinality(present)
                 RECURSIVE Total(_, _)
                 Total(f, i) == IF i > Len(x) THEN 0
                                ELSE (IF i \in present THEN f[i] ELSE 0)
                                         + Total(f, i + 1)
                 S == Total([i \in 1..Len(x) |-> x[i][2]], 1)
                 Q == Total([i \in 1..Len(x) |-> x[i][2] * x[i][2]], 1)
                 Exceeds(i) ==
                     /\ i \in present
                     /\ n >= 2
                     /\ IF t >= 0
                        THEN (n * x[i][2] - S) * (n * x[i][2] - S) * (n - 1)
                                 > t * t * n * (n * Q - S * S)
                        ELSE n * Q - S * S > 0
             IN  \A i \in 1..Len(x) :
                     /\ ret.tbl.data[c \o "_flagged"][i] = Bool(Exceeds(i))
                     /\ IsNull(x[i]) =>
                          /\ ret.tbl.data[c][i] = NaN
                          /\ ret.tbl.data[c \o "_zscore"][i] = NaN
        /\ (df0 = ScenarioB /\ call.columns = <<"GHI">>
              /\ call.threshold = 1) =>
             ret.tbl.data["GHI_flagged"] =
                 <<Bool(TRUE), Bool(FALSE), Bool(FALSE), Bool(FALSE),
                   Bool(TRUE)>>

\* computeZScores has returned for [1, 2, 3, 4, 5] with threshold 1
C9_Witness ==
    /\ call.op = "zscores"
    /\ df0 = ScenarioB
    /\ call.columns = <<"GHI">>
    /\ call.threshold = 1
    /\ ret.kind = "table"
    /\ ret.tbl.data["GHI_flagged"][1] = Bool(TRUE)

\* C10: every cell replaceOutliers overwrites receives the column's mean
\* (method mean) or median (method median) of the original column, outliers
\* included; and a column's result depends only on that column's original
\* values: it is the same when the column is the table's only column and
\* when the columns are processed in the opposite order.
C10_ReplacementFromOriginalColumn ==
    (call.op = "replace" /\ ret.kind = "table") =>
        \A c \in LabelSet(df0.cols) :
            df0.dtype[c] = "num" =>
                LET x == df0.data[c]
                    only == [cols  |-> <<c>>,
                             dtype |-> [a \in {c} |-> "num"],
                             data  |-> [a \in {c} |-> x],
                             index |-> df0.index]
                    reversed == [df0 EXCEPT !.cols =
                                    [j \in 1..Len(df0.cols) |->
                                        df0.cols[Len(df0.cols) + 1 - j]]]
                    alone == replace_outliers_with_mean_or_median(
                                 only, call.method, call.threshold)
                    back  == replace_outliers_with_mean_or_median(
                                 reversed, call.method, call.threshold)
                    v == DropNa(x)
                    stat == IF call.method = "mean"
                            THEN (IF Len(v) = 0 THEN NaN
                                  ELSE Rat(SumFrom(v, 1)[2],
                                           SumFrom(v, 1)[3] * Len(v)))
                            ELSE SeriesMedian(x)
                IN  /\ \A i \in 1..Len(x) :
                         ret.over[c][i] => ret.tbl.data[c][i] = stat
                    /\ alone.tbl.data[c] = ret.tbl.data[c]
                    /\ back.tbl.data[c] = ret.tbl.data[c]

\* replaceOutliers has overwritten a cell in each of two numeric columns
C10_Witness ==
    /\ call.op = "replace"
    /\ ret.kind = "table"
    /\ \E c, e \in LabelSet(df0.cols) :
         /\ c # e
         /\ \E i \in 1..NRows(df0) :
              ret.over[c][i] /\ ret.tbl.data[c][i] # df0.data[c][i]
         /\ \E i \in 1..NRows(df0) :
              ret.over[e][i] /\ ret.tbl.data[e][i] # df0.data[e][i]

\* C11: computeNullReport(T) has an entry for a column exactly when the
\* column has a missing value, the entry is the column's missing count, the
\* entries follow the table's column order, their sum is the number of
\* missing cells of T, and the call never fails: zero rows or zero columns
\* give the empty report; A = [1, missing, 3], B = [1, 2, 3] give {A: 1}.
C11_NullReport ==
    call.op = "nulls" =>
        LET rep == ret.report
            Missing(c) ==
                Cardinality({i \in 1..NRows(df0) : df0.data[c][i] = NaN})
            Pos(c) == CHOOSE j \in 1..Len(df0.cols) : df0.cols[j] = c
            RECURSIVE Sum(_)
            Sum(k) == IF k > Len(rep) THEN 0 ELSE rep[k][2] + Sum(k + 1)
        IN  /\ ret.kind = "dict"
            /\ \A c \in LabelSet(df0.cols) :
                 IF Missing(c) > 0
                 THEN \E k \in 1..Len(rep) : rep[k] = <<c, Missing(c)>>
                 ELSE \A k \in 1..Len(rep) : rep[k][1] # c
            /\ \A k \in 1..Len(rep) : rep[k][1] \in LabelSet(df0.cols)
            /\ \A k, l \in 1..Len(rep) :
                 k < l => Pos(rep[k][1]) < Pos(rep[l][1])
            /\ Sum(1) = Cardinality(
                          {x \in LabelSet(df0.cols) \X (1..NRows(df0)) :
                              df0.data[x[1]][x[2]] = NaN})
            /\ (NRows(df0) = 0 \/ Len(df0.cols) = 0) => rep = <<>>
            /\ df0 = ScenarioA => rep = << <<"A", 1>> >>

\* computeNullReport has returned two entries for a table whose two columns
\* both hold missing values
C11_Witness ==
    /\ call.op = "nulls"
    /\ ret.kind = "dict"
    /\ Len(ret.report) = 2
    /\ \A c \in LabelSet(df0.cols) : \E i \in 1..NRows(df0) : IsNull(df0.data[c][i])

\* C12: computeZScores fails (the mean of a column of strings raises
\* TypeError) when a requested column is not numeric, and the failure leaves
\* no output: nothing is returned and no z-score or flag column of an
\* earlier requested column is visible in the caller's table.
C12_NonNumericColumnFails ==
    (/\ call.op = "zscores"
     /\ \A k \in 1..Len(call.columns) : HasCol(df0, call.columns[k])
     /\ \E k \in 1..Len(call.columns) : df0.dtype[call.columns[k]] = "str") =>
        /\ ret.kind = "raise"
        /\ ret.exc = "TypeError"
        /\ ret.tbl = EmptyTable
        /\ df = df0
        /\ \A k \in 1..Len(call.columns) :
             /\ ~HasCol(df, call.columns[k] \o "_zscore")
             /\ ~HasCol(df, call.columns[k] \o "_flagged")

\* computeZScores has failed on a column of strings after it had computed
\* the z-scores of an earlier requested column
C12_Witness ==
    /\ call.op = "zscores"
    /\ ret.kind = "raise"
    /\ ret.exc = "TypeError"
    /\ Len(call.columns) = 2
    /\ df0.dtype[call.columns[2]] = "str"
    /\ HasCol(ret.work, call.columns[1] \o "_zscore")

\* C13: resample of a table with rows and columns fails with InvalidArgument for every
\* method name outside {mean, median, min, max} and for every
\* bucketDays <= 0 (the method being taken from that fixed set and not
\* looked up by name at run time).
C13_ResampleRejectsUnknownMethod ==
    (/\ call.op = "resample"
     /\ NRows(df0) >= 1
     /\ Len(df0.cols) >= 1
     /\ \/ Lower(call.method) \notin {"mean", "median", "min", "max"}
        \/ call.period <= 0) =>
        ret.kind = "raise"

\* the cells of column c of the caller's table in calendar period b
PeriodCells(c, b) ==
    LET rows == SelectSeq([i \in 1..NRows(df0) |-> i],
                          LAMBDA i : CalendarBucket(df0, call.frequency, i) = b)
    IN  DropNa([r \in 1..Len(rows) |-> df0.data[c][rows[r]]])

\* C14 as the claim states it: aggregateByCalendarPeriod fails with
\* InvalidArgument for every frequency other than Monthly and Yearly, and
\* for those two it returns the per-period mean of the columns the caller
\* selected, the output's column set being the requested column set (here
\* for a table with rows that has GHI, DNI and DHI).
C14_OutputColumnsAreRequested ==
    call.op = "aggregate" =>
        IF call.frequency \notin {"M", "Y"}
        THEN ret.kind = "raise" /\ ret.exc = "ValueError"
        ELSE (/\ LabelSet(call.columns) \subseteq LabelSet(df0.cols)
              /\ LabelSet(SolarColumns) \subseteq LabelSet(df0.cols)
              /\ NRows(df0) >= 1) =>
                /\ ret.kind = "table"
                /\ LabelSet(ret.tbl.cols) = LabelSet(call.columns)

\* C14, amended: aggregate_solar_data fails with ValueError for every
\* frequency other than "M" and "Y", whatever the table holds; for those two
\* it takes no column selection and returns, for a table that has GHI, DNI
\* and DHI, exactly these three columns with one row per calendar period
\* holding the mean of the period's non-missing values (missing when there
\* is none), and fails with KeyError for a table lacking one of the three.
C14_AggregateFixedColumns ==
    call.op = "aggregate" =>
        /\ df = df0
        /\ IF call.frequency \notin {"M", "Y"}
           THEN ret.kind = "raise" /\ ret.exc = "ValueError"
           ELSE IF LabelSet(SolarColumns) \subseteq LabelSet(df0.cols)
           THEN /\ ret.kind = "table"
                /\ ret.tbl.cols = SolarColumns
                /\ NRows(ret.tbl) =
                     Cardinality({CalendarBucket(df0, call.frequency, i) :
                                     i \in 1..NRows(df0)})
                /\ \A c \in LabelSet(SolarColumns) :
                     \A b \in 1..NRows(ret.tbl) :
                        LET v == PeriodCells(c, b - 1)
                            m == ret.tbl.data[c][b]
                        IN  IF v = <<>> THEN m = NaN
                            ELSE RMul(m, Num(Len(v))) = SumFrom(v, 1)
           ELSE ret.kind = "raise" /\ ret.exc = "KeyError"

C14_Witness ==
    /\ call.op = "aggregate"
    /\ call.columns = <<"GHI">>
    /\ ret.kind = "table"
    /\ ret.tbl.cols = SolarColumns
    /\ NRows(ret.tbl) = 1
    /\ NRows(df0) = 2
    /\ df0.data["GHI"][1] # df0.data["GHI"][2]
    /\ ret.tbl.data["GHI"][1] = Rat(1, 2)

\* entry [a][b] of the returned matrix, a and b being positions in the
\* chosen columns
Entry(a, b) == ret.tbl.data[call.columns[b]][a]

\* the matrix is square, indexed by the chosen columns, and symmetric
SquareSymmetric ==
    /\ ret.tbl.cols = call.columns
    /\ \A c \in LabelSet(call.columns) :
         Len(ret.tbl.data[c]) = Len(call.columns)
    /\ \A a, b \in 1..Len(call.columns) : Entry(a, b) = Entry(b, a)

\* a column with at least two non-missing values that are not all equal
HasSpread(s) ==
    \E i, j \in 1..Len(s) : IsNum(s[i]) /\ IsNum(s[j]) /\ s[i] # s[j]

\* C15 as the claim states it: the correlation matrix is square, indexed by
\* the chosen columns, symmetric, and every diagonal entry is 1.0, also for
\* constant columns and columns with fewer than two non-missing values.
C15_DiagonalAlwaysOne ==
    (call.op = "corr" /\ ret.kind = "matrix") =>
        /\ SquareSymmetric
        /\ \A a \in 1..Len(call.columns) : Entry(a, a) = One

\* C15, amended: the correlation matrix is square, indexed by the chosen
\* columns and symmetric; a diagonal entry is 1.0 when its column has at
\* least two non-missing values that are not all equal and is missing (NaN)
\* otherwise; for X = [1,2,3,4], Y = [2,4,6,8] all four entries are 1.0.
C15_DiagonalOneOrMissing ==
    (call.op = "corr" /\ ret.kind = "matrix") =>
        /\ SquareSymmetric
        /\ \A a \in 1..Len(call.columns) :
             Entry(a, a) = IF HasSpread(df0.data[call.columns[a]])
                           THEN One ELSE NaN
        /\ df0 = ScenarioE =>
             \A a, b \in 1..Len(call.columns) : Entry(a, b) = One

C15_Witness ==
    /\ call.op = "corr"
    /\ ret.kind = "matrix"
    /\ Len(call.columns) = 2
    /\ Entry(1, 1) = NaN
    /\ Entry(2, 2) = One
    /\ Entry(1, 2) = NaN
    /\ NRows(df0) = 2

\* C16: for a table with rows, the ZScoreResult contains every original
\* column of the input with unchanged values, plus exactly one z-score column and one flagged column
\* per requested column, also when the table already has a column named
\* like a generated one and when a column is requested twice.
C16_ResultKeepsOriginalColumns ==
    (call.op = "zscores" /\ ret.kind = "table" /\ NRows(df0) >= 1) =>
        /\ \A c \in LabelSet(df0.cols) :
             HasCol(ret.tbl, c) /\ ret.tbl.data[c] = df0.data[c]
        /\ \A c \in LabelSet(call.columns) :
             /\ HasCol(ret.tbl, c \o "_zscore")
             /\ HasCol(ret.tbl, c \o "_flagged")
        /\ Len(ret.tbl.cols) =
             Len(df0.cols) + 2 * Cardinality(LabelSet(call.columns))

\* C17: calculate_z_scores, replace_outliers_with_mean_or_median and
\* replace_neg_with_zero leave the caller's table as it was when the call
\* began, whether they return or raise, and what they return is a structure
\* distinct from the caller's table; so the table is the same after any
\* sequence of these calls.
C17_CallerTableUnchanged ==
    call.op \in {"zscores", "replace", "zero"} =>
        /\ df = df0
        /\ ret.kind = "table" => ~ret.same

C17_Witness ==
    /\ call.op \in {"zscores", "replace", "zero"}
    /\ ret.kind = "table"
    /\ ret.tbl.cols = df0.cols
    /\ HasCol(df0, "GHI")
    /\ \E i \in 1..NRows(df0) :
         ret.tbl.data["GHI"][i] # df0.data["GHI"][i]
    /\ df = df0

\* C18: replace_neg_with_zero turns every missing cell into 0: an output
\* cell is the input cell only when the input is a value >= 0, so the result
\* holds no missing marker and its null report is empty.
C18_MissingBecomesZero ==
    (call.op = "zero" /\ ret.kind = "table") =>
        /\ \A c \in LabelSet(df0.cols) : \A i \in 1..NRows(df0) :
             /\ IsNull(df0.data[c][i]) => ret.tbl.data[c][i] = Num(0)
             /\ ret.tbl.data[c][i] = df0.data[c][i] =>
                  IsNum(df0.data[c][i]) /\ df0.data[c][i][2] >= 0
             /\ ~IsNull(ret.tbl.data[c][i])
        /\ report_null_columns(ret.tbl).report = <<>>

C18_Witness ==
    /\ call.op = "zero"
    /\ ret.kind = "table"
    /\ report_null_columns(df0).report # <<>>
    /\ HasCol(df0, "A")
    /\ \E i \in 1..NRows(df0) :
         IsNull(df0.data["A"][i]) /\ ret.tbl.data["A"][i] = Num(0)

====
